---- MODULE Spec2Model ----
(***************************************************************************)
(* The RabbitMQ client of pkg/tools/broker (rabbitmq_client.go): its       *)
(* connection and channel fields, the mutex that guards them, the shutdown *)
(* signal closeCh, and the background goroutines that establishLocal-      *)
(* Connection starts (the connection monitor and the channel-close         *)
(* listener), together with the reconnect loop they may enter.             *)
(*                                                                         *)
(* The amqp library is the environment: a dial or a channel open may fail, *)
(* the broker may drop a connection or close a channel at any moment, and  *)
(* a close primitive may return an error.  A connection or channel handle  *)
(* is a number in 1..MaxConns (0 is the nil pointer); the channel opened   *)
(* on connection h is handle h.                                            *)
(*                                                                         *)
(* Granularity.  ConnectLocal, Close, Ping and the reconnect attempt hold  *)
(* c.mu for their whole body.  Close and Ping are one step each (they take *)
(* the mutex, run and release it).  establishLocalConnection is two steps, *)
(* the dial (which stores c.connection) and the channel open, because the  *)
(* monitor goroutine reads c.connection WITHOUT the mutex and the broker   *)
(* may drop the new connection in between.  A goroutine blocked on a close *)
(* notification reacts in the step that shuts its connection or channel    *)
(* down: what it does next (return, or enter reconnectLocalLoop and sleep) *)
(* depends on the notification alone.                                      *)
(*                                                                         *)
(* Spec is the client used directly by its callers.  AppSpec is the        *)
(* application around it: the start of the RabbitMQ singleton              *)
(* (configs/event: validateParams, then ConnectLocal on a new client), and *)
(* the health check (pkg/tools/healthcheck, with the handler of the        *)
(* router), whose RabbitMQ probe is the Ping of that client.  The health   *)
(* library is part of the environment: Measure turns the outcome of the    *)
(* one check of a component into the status of its record.                 *)
(***************************************************************************)
EXTENDS Naturals, FiniteSets, Sequences

\* Number of connection handles the broker hands out in one run.
MaxConns == 2

Handles == 1..MaxConns
NoHandle == 0

\* tools.Params, and its zero value.
NoParams == [Host |-> "", Port |-> "", User |-> "", Password |-> "", Vhost |-> ""]

\* ConnectLocal, lines 59-65: the parameters it stores.
MakeParams(host, port, user, password) ==
    [Host |-> host, Port |-> port, User |-> user, Password |-> password, Vhost |-> "/"]

\* Two distinct parameter tuples a caller of ConnectLocal may pass.
ParamChoices == {MakeParams("broker-a", "5672", "guest", "guest"),
                 MakeParams("broker-b", "5672", "guest", "guest")}

\* The environment variables getConnectionRabbit reads, in the order
\* validateParams tests them, and the values os.Getenv may return for each
\* ("" when the variable is unset or empty).
RabbitEnv == <<"RABBITMQ_HOST", "RABBITMQ_PORT", "RABBITMQ_USERNAME", "RABBITMQ_PASSWORD">>
EnvNames == {RabbitEnv[i] : i \in 1..Len(RabbitEnv)}
EnvValues == {"", "set"}

\* The goroutines establishLocalConnection starts for handle h: the connection
\* monitor (line 169) and the channel-close listener (lines 173-178).
Goroutines == {"mon", "lst"} \X Handles
Mon(h) == <<"mon", h>>
Lst(h) == <<"lst", h>>

\* What a call may return: nil or an error.
Errors == {"nil", "err"}

\* Holders of c.mu other than a goroutine.
Free == <<"free", 0>>
Caller == <<"caller", 0>>

VARIABLES
    connection,     \* c.connection: a handle, or NoHandle for nil
    channel,        \* c.channel: a handle, or NoHandle for nil
    params,         \* c.params
    mu,             \* c.mu: Free, Caller (a ConnectLocal in progress), or the goroutine holding it
    closeCh,        \* c.closeCh: "open" or "closed"
    connState,      \* library: per handle "unused", "open", "lost" (closed with an error), "closed" (graceful)
    chanState,      \* library: the same, for the channel of the handle
    origin,         \* per handle, who dialled it: "none", "connect", "reconnect"
    pc,             \* per goroutine: "none", "start", "listen", "sleep", "ready", "chan", "done"
    target,         \* per monitor goroutine: the connection it registered its listener on
    closeChCloses,  \* history: how many times close(c.closeCh) was executed
    closeCalls,     \* history: number of Close() calls: 0, 1, or 2 for two or more
    lastClose,      \* history: what the most recent Close() did and returned
    failedAttempts, \* history: per goroutine, consecutive failed attempts of its
                    \* reconnect loop: 0, 1, or 2 for two or more
    env,            \* the process environment: the value of each RabbitMQ variable
    startup,        \* configs/event: what getConnectionRabbit has done
    clients,        \* healthcheck.Clients of the health handler: per field "nil" or "set"
    probed,         \* history: the inputs of the most recent CheckerHealth: per
                    \* dependency "nil" (its handle was nil) or what its Ping did;
                    \* "none" before the first call
    response        \* what the health handler answered last: HTTP code and Response

fields == <<connection, channel, params>>
lib == <<connState, chanState, origin>>
closeHist == <<closeChCloses, closeCalls, lastClose>>
client == <<connection, channel, params, mu, closeCh, connState, chanState,
            origin, pc, target, closeChCloses, closeCalls, lastClose, failedAttempts>>
app == <<env, startup, clients, probed, response>>
vars == <<client, app>>

\* lastClose before any Close(): res is the value returned ("nil", "err", or
\* "panic"), chanClose and connClose say whether channel.Close() and
\* connection.Close() were invoked.
NoClose == [res |-> "none", chanClose |-> FALSE, connClose |-> FALSE]

\* A history counter counts 0, 1, "two or more".
Count(n) == IF n < 2 THEN n + 1 ELSE 2

\* getConnectionRabbit has not run (the sync.Once of RabbitConnection is
\* unused): rabbit is "none", then "fatal" (validateParams ended the process,
\* missing holds the names it logged), or "dialled" (ConnectLocal was called
\* and is past its dial), and then "connected" (ConnectLocal returned nil) or
\* "failed" (it returned an error, which line 44 logs).  cache and postgres
\* are "none" until the sync.Once of HazelcastConnection and of
\* PostgresConnection has run, and then what the constructor returned, "ok"
\* or "failed"; hazelcast and db are the handles the singletons hold
\* (Cache.Hazelcast, Data.DB), "nil" or "set".  main is "running" until the
\* process ends, by a panic ("panic") or by the exit at the end of the
\* server ("exited").
NotStarted ==
    [rabbit |-> "none", missing |-> <<>>,
     cache |-> "none", hazelcast |-> "nil",
     postgres |-> "none", db |-> "nil",
     main |-> "running"]

\* The environment of a process whose RabbitMQ variables are all set.
FullEnv == [n \in EnvNames |-> "set"]

\* NewClient: only closeCh is made; every other field has its zero value.
NewClient ==
    /\ connection = NoHandle
    /\ channel = NoHandle
    /\ params = NoParams
    /\ mu = Free
    /\ closeCh = "open"
    /\ connState = [h \in Handles |-> "unused"]
    /\ chanState = [h \in Handles |-> "unused"]
    /\ origin = [h \in Handles |-> "none"]
    /\ pc = [g \in Goroutines |-> "none"]
    /\ target = [h \in Handles |-> NoHandle]
    /\ closeChCloses = 0
    /\ closeCalls = 0
    /\ lastClose = NoClose
    /\ failedAttempts = [g \in Goroutines |-> 0]

\* The dependencies in the order CheckerHealth collects them (lines 40-42 of
\* pkg/tools/healthcheck), with the Clients field and the component of each.
Deps == <<"RabbitClient", "HazelcastClient", "PgClient">>
DepSet == {Deps[i] : i \in 1..Len(Deps)}
ComponentName(d) ==
    IF d = "RabbitClient" THEN "RabbitMQ"
    ELSE IF d = "HazelcastClient" THEN "Hazelcast"
    ELSE "postgresql-sql"

\* A health handler whose three handles are nil (the zero values of
\* storage.Data, cache.Cache and events.RabbitEvent), and the state before
\* any request.
NoClients == [d \in DepSet |-> "nil"]
NoProbes == [d \in DepSet |-> "none"]
NoResponse == [code |-> 0, OverallStatus |-> "", Checks |-> <<>>]

\* A client made by NewClient, used directly by its callers.
Init ==
    /\ NewClient
    /\ env = FullEnv
    /\ startup = NotStarted
    /\ clients = NoClients
    /\ probed = NoProbes
    /\ response = NoResponse

\* The application before its start, in any environment.
AppInit ==
    /\ NewClient
    /\ env \in [EnvNames -> EnvValues]
    /\ startup = NotStarted
    /\ clients = NoClients
    /\ probed = NoProbes
    /\ response = NoResponse

----------------------------------------------------------------------------
(* The amqp library, as the client uses it.                                *)

\* The handle the next successful amqp.Dial returns.
NextHandle == Cardinality({h \in Handles : connState[h] # "unused"}) + 1

\* connection.IsClosed()
IsClosed(h) == connState[h] # "open"

\* The library shuts a connection down: its channel goes with it.  how is
\* "lost" (the broker dropped it: listeners receive an error) or "closed"
\* (connection.Close(): the listeners' channels are closed without an error).
ShutdownConn(cs, h, how) == IF cs[h] = "open" THEN [cs EXCEPT ![h] = how] ELSE cs

\* Line 174: `if errClose := <-closeChan; err != nil`.  The condition tests
\* err, the result of amqp.Dial in the enclosing function, not errClose.
ListenerCondition(err, errClose) == err # "nil"

\* monitorLocalConnection, lines 197-201, when the connection it listens on
\* goes to state how.  "lost": an error is delivered and the goroutine
\* enters reconnectLocalLoop, whose first statement is the sleep.  "closed"
\* (a graceful close): the notification channel is closed without an error,
\* the range ends and the goroutine returns.
MonitorOnClose(how) == IF how = "lost" THEN "sleep" ELSE "done"

\* The channel-close listener, lines 173-178, when its channel goes to state
\* how.  err is nil here: establishLocalConnection returned at line 151
\* otherwise.
ListenerOnClose(how) ==
    LET errClose == IF how = "lost" THEN "closed by broker" ELSE "nil" IN
    IF ListenerCondition("nil", errClose) THEN "sleep" ELSE "done"

\* The goroutines after the library state became cs (connections) and chs
\* (channels): every goroutine blocked on a handle that is no longer open
\* has received its notification.
Notified(pcs, cs, chs) ==
    [g \in Goroutines |->
        IF pcs[g] # "listen" THEN pcs[g]
        ELSE IF g[1] = "mon"
             THEN IF cs[target[g[2]]] = "open" THEN "listen"
                  ELSE MonitorOnClose(cs[target[g[2]]])
             ELSE IF chs[g[2]] = "open" THEN "listen"
                  ELSE ListenerOnClose(chs[g[2]])]

----------------------------------------------------------------------------
\* An operation that enters without waiting for the mutex.
LockNoWait == TRUE
\* c.mu.Lock() (lines 56, 82, 120, 218): the operation goes on once the mutex
\* is free.  The deferred (or line 220) Unlock is the mu' = Free of its last step.
Lock == mu = Free

----------------------------------------------------------------------------
(* establishLocalConnection, lines 143-182, run by `who` under c.mu.       *)

\* Lines 145-155: amqp.Dial, with the URL built from c.params, succeeds and
\* the connection is stored.
DialOk(who) ==
    LET h == NextHandle IN
    /\ h \in Handles
    /\ connection' = h
    /\ connState' = [connState EXCEPT ![h] = "open"]
    /\ origin' = [origin EXCEPT ![h] = IF who = Caller THEN "connect" ELSE "reconnect"]
    /\ mu' = who
    /\ UNCHANGED <<channel, chanState, target>>

\* Lines 148-152: amqp.Dial fails; nothing is stored and the mutex is released.
DialErr ==
    /\ mu' = Free
    /\ UNCHANGED <<connection, channel, lib, target>>

\* Lines 158-181: the channel is opened and stored, the monitor goroutine is
\* started (it has not run yet) and the channel-close listener is registered.
\* The listener closure captures the outer err, which is nil on this path.
ChannelOk(who) ==
    LET h == connection IN
    /\ connState[h] = "open"
    /\ channel' = h
    /\ chanState' = [chanState EXCEPT ![h] = "open"]
    /\ mu' = Free
    /\ UNCHANGED <<connection, connState, origin, target>>

\* A channel-open failure that leaves the new connection open (no conn.Close()).
ChannelErrLeavesOpen(who) ==
    /\ mu' = Free
    /\ UNCHANGED <<connection, channel, lib, target>>

\* Lines 158-163: conn.Channel() fails; the new connection is closed.
ChannelErr(who) ==
    LET h == connection IN
    /\ connState' = ShutdownConn(connState, h, "closed")
    /\ mu' = Free
    /\ UNCHANGED <<connection, channel, chanState, origin, target>>

\* The goroutines started at lines 169 and 173 for the handle just established.
Spawned(h) == [g \in Goroutines |->
                 IF g = Mon(h) THEN "start" ELSE IF g = Lst(h) THEN "listen" ELSE pc[g]]

----------------------------------------------------------------------------
(* The public methods.                                                     *)

\* ConnectLocal, lines 55-67, up to the dial of establishLocalConnection.
\* err is what amqp.Dial returns: on "err" ConnectLocal returns the error at
\* once (line 151), on "nil" it goes on to the channel.
ConnectLocalDial(p, err) ==
    /\ Lock
    /\ params' = p
    /\ IF err = "nil" THEN DialOk(Caller) ELSE DialErr
    /\ UNCHANGED <<closeCh, pc, closeHist, failedAttempts>>

\* A ConnectLocal that starts the two goroutines before it opens the channel.
ConnectLocalChannelSpawnsFirst(err) ==
    /\ mu = Caller
    /\ IF err = "nil"
       THEN /\ ChannelOk(Caller)
            /\ pc' = Spawned(connection)
       ELSE /\ ChannelErr(Caller)
            /\ pc' = Notified(Spawned(connection), connState', chanState')
    /\ UNCHANGED <<params, closeCh, closeHist, failedAttempts>>

\* ConnectLocal, the rest of establishLocalConnection and the return.  err is
\* what conn.Channel() returns, and then what ConnectLocal returns (lines 162
\* and 181).
ConnectLocalChannel(err) ==
    /\ mu = Caller
    /\ IF err = "nil"
       THEN /\ ChannelOk(Caller)
            /\ pc' = Spawned(connection)
       ELSE /\ ChannelErr(Caller)
            /\ pc' = Notified(pc, connState', chanState')
    /\ UNCHANGED <<params, closeCh, closeHist, failedAttempts>>

\* A Close without the select: the signal is closed whatever its state.
ShutdownSelectUnguarded(ch) == "close"
\* The select of Close, lines 87-92: the signal is closed unless it already is.
ShutdownSelect(ch) == IF ch = "closed" THEN "skip" ELSE "close"

\* Ping, lines 119-135: the value it returns in the current state.
PingResult ==
    IF connection = NoHandle \/ IsClosed(connection) THEN "err"
    ELSE IF channel = NoHandle THEN "err"
    ELSE "nil"

\* Ping takes the mutex, returns PingResult and changes nothing.
Ping ==
    /\ Lock
    /\ PingResult \in {"nil", "err"}
    /\ UNCHANGED vars

\* Close, lines 81-106, with closeChannel (239-250) and closeConnection
\* (258-269).  chErr and cnErr say whether channel.Close() and
\* connection.Close() return an error; a handle is shut down by its close
\* primitive whatever that returns, and connection.Close() on a connection
\* that is no longer open returns ErrClosed.  close() of a closed Go channel
\* panics: the deferred Unlock runs and nothing after the select does.
Close ==
    /\ Lock
    /\ closeCalls' = Count(closeCalls)
    /\ LET sel == ShutdownSelect(closeCh)
           panics == sel = "close" /\ closeCh = "closed"
           hasCh == channel # NoHandle
           hasCn == connection # NoHandle
       IN
       /\ closeCh' = "closed"
       /\ closeChCloses' = IF sel = "close" THEN Count(closeChCloses) ELSE closeChCloses
       /\ IF panics
          THEN /\ lastClose' = [res |-> "panic", chanClose |-> FALSE, connClose |-> FALSE]
               /\ UNCHANGED <<connState, chanState>>
          ELSE \E chErr \in (IF hasCh THEN BOOLEAN ELSE {FALSE}) :
               \E cnErr \in (IF hasCn /\ ~chErr THEN BOOLEAN ELSE {FALSE}) :
               LET afterCh == IF hasCh THEN ShutdownConn(chanState, channel, "closed")
                              ELSE chanState
                   callCn == hasCn /\ ~chErr
                   errClosed == callCn /\ IsClosed(connection)
               IN
               /\ connState' = IF callCn
                      THEN ShutdownConn(connState, connection, "closed")
                      ELSE connState
               /\ chanState' = IF callCn
                      THEN ShutdownConn(afterCh, connection, "closed")
                      ELSE afterCh
               /\ lastClose' = [res |-> IF chErr \/ cnErr \/ errClosed THEN "err" ELSE "nil",
                                chanClose |-> hasCh, connClose |-> callCn]
    /\ pc' = Notified(pc, connState', chanState')
    /\ UNCHANGED <<fields, mu, origin, target, failedAttempts>>

----------------------------------------------------------------------------
(* The background goroutines.                                              *)

\* monitorLocalConnection, line 194: the goroutine runs and registers its
\* listener on whatever c.connection holds now (read without the mutex).  On
\* a connection that is already shut down the library closes the receiver at
\* once, the range loop sees no error and the goroutine returns.
MonitorRegister(h) ==
    /\ pc[Mon(h)] = "start"
    /\ target' = [target EXCEPT ![h] = connection]
    /\ pc' = [pc EXCEPT ![Mon(h)] = IF IsClosed(connection) THEN "done" ELSE "listen"]
    /\ UNCHANGED <<fields, mu, closeCh, lib, closeHist, failedAttempts>>

\* reconnectLocalLoop, line 215: the 5 second sleep is over.
SleepElapsed(g) ==
    /\ pc[g] = "sleep"
    /\ pc' = [pc EXCEPT ![g] = "ready"]
    /\ UNCHANGED <<fields, mu, closeCh, lib, target, closeHist, failedAttempts>>

\* A loop that gives up: it ends after one attempt, whatever the outcome.
AfterAttemptGiveUp(err) == "done"
\* reconnectLocalLoop, lines 222-230: after an attempt the loop ends if it
\* succeeded and goes back to the sleep otherwise.
AfterAttempt(err) == IF err = "nil" THEN "done" ELSE "sleep"

\* reconnectLocalLoop, lines 218-219: the mutex is taken and
\* establishLocalConnection dials with the stored parameters.
ReconnectDial(g) ==
    /\ pc[g] = "ready"
    /\ Lock
    /\ UNCHANGED params
    /\ \/ /\ DialOk(g)
          /\ pc' = [pc EXCEPT ![g] = "chan"]
          /\ UNCHANGED failedAttempts
       \/ /\ DialErr
          /\ pc' = [pc EXCEPT ![g] = AfterAttempt("err")]
          /\ failedAttempts' = [failedAttempts EXCEPT ![g] = Count(@)]
    /\ UNCHANGED <<closeCh, closeHist>>

\* reconnectLocalLoop, lines 219-230: the rest of establishLocalConnection,
\* the unlock and the test of its result.  After a success the goroutine
\* leaves the loop; its old notification channel is closed and it returns.
ReconnectChannel(g) ==
    /\ pc[g] = "chan"
    /\ mu = g
    /\ \/ /\ ChannelOk(g)
          /\ pc' = [Spawned(connection) EXCEPT ![g] = AfterAttempt("nil")]
          /\ failedAttempts' = [failedAttempts EXCEPT ![g] = 0]
       \/ /\ ChannelErr(g)
          /\ pc' = [Notified(pc, connState', chanState') EXCEPT ![g] = AfterAttempt("err")]
          /\ failedAttempts' = [failedAttempts EXCEPT ![g] = Count(@)]
    /\ UNCHANGED <<params, closeCh, closeHist>>

----------------------------------------------------------------------------
(* The broker.                                                             *)

\* The broker (or the network) drops an open connection: its channel goes
\* with it and every registered listener is sent the error.
BrokerDropConnection(h) ==
    /\ connState[h] = "open"
    /\ connState' = [connState EXCEPT ![h] = "lost"]
    /\ chanState' = ShutdownConn(chanState, h, "lost")
    /\ pc' = Notified(pc, connState', chanState')
    /\ UNCHANGED <<fields, mu, closeCh, origin, target, closeHist, failedAttempts>>

\* The broker closes the channel alone (a channel exception); the connection
\* stays open.
BrokerCloseChannel(h) ==
    /\ chanState[h] = "open"
    /\ chanState' = [chanState EXCEPT ![h] = "lost"]
    /\ pc' = Notified(pc, connState, chanState')
    /\ UNCHANGED <<fields, mu, closeCh, connState, origin, target,
                   closeHist, failedAttempts>>

----------------------------------------------------------------------------
Next ==
    \/ \E h \in Handles : BrokerCloseChannel(h) /\ UNCHANGED app
    \/ \E h \in Handles : BrokerDropConnection(h) /\ UNCHANGED app
    \/ \E p \in ParamChoices, err \in Errors : ConnectLocalDial(p, err) /\ UNCHANGED app
    \/ \E err \in Errors : ConnectLocalChannel(err) /\ UNCHANGED app
    \/ Close /\ UNCHANGED app
    \/ Ping
    \/ \E h \in Handles : MonitorRegister(h) /\ UNCHANGED app
    \/ \E g \in Goroutines : SleepElapsed(g) /\ UNCHANGED app
    \/ \E g \in Goroutines : ReconnectDial(g) /\ UNCHANGED app
    \/ \E g \in Goroutines : ReconnectChannel(g) /\ UNCHANGED app

Spec == Init /\ [][Next]_vars

----------------------------------------------------------------------------
(* The application, configs/event: the start of the RabbitMQ singleton.    *)

\* The process runs: neither log.Fatal nor a panic has ended it, and its
\* server has not stopped.
Running == startup.main = "running" /\ startup.rabbit # "fatal"

\* validateParams that reports only the first missing variable.
validateParamsFirstOnly(host, port, user, password) ==
    IF host = "" THEN <<RabbitEnv[1]>>
    ELSE IF port = "" THEN <<RabbitEnv[2]>>
    ELSE IF user = "" THEN <<RabbitEnv[3]>>
    ELSE IF password = "" THEN <<RabbitEnv[4]>>
    ELSE <<>>

\* validateParams, lines 52-66 of configs/event: missingVars, the names of the
\* empty values, appended in the order host, port, user, password.
validateParams(host, port, user, password) ==
    (IF host = "" THEN <<RabbitEnv[1]>> ELSE <<>>)
    \o (IF port = "" THEN <<RabbitEnv[2]>> ELSE <<>>)
    \o (IF user = "" THEN <<RabbitEnv[3]>> ELSE <<>>)
    \o (IF password = "" THEN <<RabbitEnv[4]>> ELSE <<>>)

\* getConnectionRabbit, lines 32-50, up to the dial of ConnectLocal; it runs
\* once (sync.Once).  validateParams ends the process with log.Fatal when a
\* variable is missing (lines 67-69): nothing after line 40 runs then.
\* Otherwise ConnectLocal is called on the new client.
GetConnectionRabbit ==
    /\ Running
    /\ startup.rabbit = "none"
    /\ LET host == env[RabbitEnv[1]]
           port == env[RabbitEnv[2]]
           user == env[RabbitEnv[3]]
           password == env[RabbitEnv[4]]
           missingVars == validateParams(host, port, user, password)
       IN
       IF Len(missingVars) > 0
       THEN /\ startup' = [startup EXCEPT !.rabbit = "fatal", !.missing = missingVars]
            /\ UNCHANGED client
       ELSE \E err \in Errors :
            /\ startup' = [startup EXCEPT
                               !.rabbit = IF err = "nil" THEN "dialled" ELSE "failed",
                               !.missing = missingVars]
            /\ ConnectLocalDial(MakeParams(host, port, user, password), err)
    /\ UNCHANGED <<env, clients, probed, response>>

\* getConnectionRabbit, lines 42-49: ConnectLocal returns err, which is
\* logged when it is not nil, and the singleton is set.
GetConnectionRabbitReturn ==
    /\ Running
    /\ startup.rabbit = "dialled"
    /\ \E err \in Errors :
        /\ ConnectLocalChannel(err)
        /\ startup' = [startup EXCEPT !.rabbit = IF err = "nil" THEN "connected" ELSE "failed"]
    /\ UNCHANGED <<env, clients, probed, response>>

----------------------------------------------------------------------------
(* The application, configs/cache and configs/storage: the other two       *)
(* singletons; cmd/main.go: the end of the process.                        *)

\* A constructor that returns a handle that is not nil together with its
\* error.
NewClientHazelcastHandleOnError(err) == "set"

\* NewClientHazelcast (pkg/tools/datastore, lines 35-54): the handle
\* returned with err; nil when err is not nil.
NewClientHazelcast(err) == IF err = "nil" THEN "set" ELSE "nil"

\* getConnection, configs/cache lines 35-50; it runs once (sync.Once).  The
\* error of the constructor is logged (line 44) and the handle it returned
\* is stored in the singleton whatever the error.
GetConnection ==
    /\ Running
    /\ startup.cache = "none"
    /\ \E err \in Errors :
        startup' = [startup EXCEPT !.cache = IF err = "nil" THEN "ok" ELSE "failed",
                                   !.hazelcast = NewClientHazelcast(err)]
    /\ UNCHANGED <<client, env, clients, probed, response>>

\* Connect (pkg/tools/sql_connection, lines 67-102): the *sql.DB returned
\* with err; nil when validation, sql.Open or the first ping failed.
Connect(err) == IF err = "nil" THEN "set" ELSE "nil"

\* conn.Ping() at line 125 of configs/storage: (*sql.DB).Ping dereferences
\* its receiver, so on a nil handle the goroutine panics; on a handle that is
\* set it returns errConn.
DbPing(conn, errConn) == IF conn = "nil" THEN "panic" ELSE errConn

\* getConnections, configs/storage lines 105-132; it runs once (sync.Once).
\* The error of Connect is logged (lines 120-122) and execution goes on to
\* conn.Ping() (line 125); an error of the ping is logged, and the handle
\* is stored in the singleton (lines 129-131) unless the ping panicked.
GetConnections ==
    /\ Running
    /\ startup.postgres = "none"
    /\ \E err \in Errors, errConn \in Errors :
        LET conn == Connect(err) IN
        startup' = [startup EXCEPT
                       !.postgres = IF err = "nil" THEN "ok" ELSE "failed",
                       !.db = IF DbPing(conn, errConn) = "panic" THEN "nil" ELSE conn,
                       !.main = IF DbPing(conn, errConn) = "panic" THEN "panic" ELSE @]
    /\ UNCHANGED <<client, env, clients, probed, response>>

\* main, cmd/main.go lines 57-62: server.Start returns when the server stops
\* and server.Logger.Fatal ends the process inside container.Invoke.  The
\* deferred function of lines 68-75, which would call
\* storage.PostgresCloseConnection, is registered after Invoke has returned
\* and so is never run; no statement of main calls Close() on the RabbitMQ
\* client or HazelcastCloseConnection.
MainExit ==
    /\ Running
    /\ startup' = [startup EXCEPT !.main = "exited"]
    /\ UNCHANGED <<client, env, clients, probed, response>>

----------------------------------------------------------------------------
(* The health check: pkg/tools/healthcheck and the handler of the router.  *)

\* What a probe may do: Ping returns nil, returns an error, or does not
\* return within the 5 seconds of the check's Timeout.
Outcomes == {"ok", "err", "timeout"}

\* health-go, getAvailability: the status after a failed check.
getAvailability(st, skipOnErr) ==
    IF skipOnErr /\ st # "Unavailable" THEN "Partially Available" ELSE "Unavailable"

\* health-go, Measure, for the one check each component is given (lines
\* 81-93, 107-119, 133-145): the status starts "OK" and a check that fails or
\* times out lowers it according to the SkipOnErr of its Config, which is true.
Measure(outcome) ==
    IF outcome = "ok" THEN "OK" ELSE getAvailability("OK", TRUE)

\* A check that probes its client without testing the handle.
checkUnguarded(d, cl, outcome) ==
    <<[Status |-> Measure(IF cl[d] = "nil" THEN "err" ELSE outcome),
       Component |-> ComponentName(d), Version |-> "1.0.0"]>>

\* checkRabbitMQ, checkHazelcast, checkPostgresSQL (lines 76-151) with their
\* collect functions (55-73): nothing for a nil handle, else the one record
\* made from what Measure returns.
check(d, cl, outcome) ==
    IF cl[d] = "nil" THEN <<>>
    ELSE <<[Status |-> Measure(outcome), Component |-> ComponentName(d), Version |-> "1.0.0"]>>

\* The number of checks whose status is "OK" (lines 159-166).
RECURSIVE okCount(_)
okCount(checks) ==
    IF checks = <<>> THEN 0
    ELSE (IF Head(checks).Status = "OK" THEN 1 ELSE 0) + okCount(Tail(checks))

\* calculateOverallStatus without its okCount == 0 case.
calculateOverallStatusNoZeroCase(checks) ==
    IF Len(checks) = 0 THEN "unknown"
    ELSE IF okCount(checks) = Len(checks) THEN "Available"
    ELSE "Partially Available"

\* calculateOverallStatus, lines 154-180.
calculateOverallStatus(checks) ==
    IF Len(checks) = 0 THEN "unknown"
    ELSE IF okCount(checks) = Len(checks) THEN "Available"
    ELSE IF okCount(checks) = 0 THEN "Unavailable"
    ELSE "Partially Available"

\* An order of collection that puts the store first.
CollectOrderStoreFirst == <<3, 2, 1>>
\* CheckerHealth, lines 40-42: the order in which the checks are collected,
\* as positions in Deps.
CollectOrder == <<1, 2, 3>>

\* CheckerHealth, lines 36-52 (without the timestamp): the checks are
\* collected in order, each after the one before has returned, and the
\* overall status is computed from them.
CheckerHealth(cl, outcome) ==
    LET checks == check(Deps[CollectOrder[1]], cl, outcome[Deps[CollectOrder[1]]])
                  \o check(Deps[CollectOrder[2]], cl, outcome[Deps[CollectOrder[2]]])
                  \o check(Deps[CollectOrder[3]], cl, outcome[Deps[CollectOrder[3]]])
    IN [OverallStatus |-> calculateOverallStatus(checks), Checks |-> checks]

\* NewHealthHandler (router, lines 168-176): a handler is built over the
\* three singletons, each of whose handle is nil or set.  A set RabbitMQ
\* handle is the client of the singleton, which exists once
\* getConnectionRabbit has returned; the handles are all nil in the handler
\* that TestHealthCheck builds.  A set Hazelcast or PostgreSQL handle is
\* the handle its singleton holds.  No handler is built in a process that
\* has ended.
NewHealthHandler(cl) ==
    /\ Running
    /\ cl["RabbitClient"] = "set" => startup.rabbit \in {"connected", "failed"}
    /\ cl["HazelcastClient"] = "set" => startup.hazelcast = "set"
    /\ cl["PgClient"] = "set" => startup.db = "set"
    /\ clients' = cl
    /\ UNCHANGED <<client, env, startup, probed, response>>

\* What the Ping of the RabbitMQ client does when the health check probes it
\* (line 88): its result, or, while a reconnect attempt holds the mutex, also
\* nothing within the 5 seconds of the check.
RabbitOutcomes ==
    IF mu # Free THEN Outcomes
    ELSE IF PingResult = "nil" THEN {"ok"} ELSE {"err"}

\* HealthChecker (router, lines 185-195): the handler copies its handles
\* into healthcheck.Clients, runs CheckerHealth and answers 200 with the
\* Response.  outcome is what each dependency's Ping does if it is probed.
HealthChecker(outcome) ==
    /\ Running
    /\ outcome["RabbitClient"] \in RabbitOutcomes
    /\ LET r == CheckerHealth(clients, outcome) IN
       response' = [code |-> 200, OverallStatus |-> r.OverallStatus, Checks |-> r.Checks]
    /\ probed' = [d \in DepSet |-> IF clients[d] = "nil" THEN "nil" ELSE outcome[d]]
    /\ UNCHANGED <<client, env, startup, clients>>

\* The application: the start of the three singletons, the health handler,
\* the end of the process, and the broker with the client's goroutines,
\* which act while the process runs.  The application calls neither Close
\* nor a second ConnectLocal on the singleton.
AppNext ==
    \/ GetConnectionRabbit
    \/ GetConnectionRabbitReturn
    \/ GetConnection
    \/ GetConnections
    \/ MainExit
    \/ \E cl \in [DepSet -> {"nil", "set"}] : NewHealthHandler(cl)
    \/ \E outcome \in [DepSet -> Outcomes] : HealthChecker(outcome)
    \/ \E h \in Handles : Running /\ BrokerCloseChannel(h) /\ UNCHANGED app
    \/ \E h \in Handles : Running /\ BrokerDropConnection(h) /\ UNCHANGED app
    \/ \E h \in Handles : Running /\ MonitorRegister(h) /\ UNCHANGED app
    \/ \E g \in Goroutines : Running /\ SleepElapsed(g) /\ UNCHANGED app
    \/ \E g \in Goroutines : Running /\ ReconnectDial(g) /\ UNCHANGED app
    \/ \E g \in Goroutines : Running /\ ReconnectChannel(g) /\ UNCHANGED app

AppSpec == AppInit /\ [][AppNext]_vars

----------------------------------------------------------------------------
(* Properties.                                                             *)

\* Goroutine g may still act: it has been started and has not returned, and
\* it is not blocked on a connection or channel that is still open.
Active(g) == pc[g] \in {"start", "sleep", "ready", "chan"}

\* C1: once Close() has been called, no supervisor goroutine performs a dial
\* attempt: a goroutine whose wait is over when the shutdown signal is closed
\* does not go on to dial (its next step is neither a dial that succeeded nor
\* one that failed).  Stated for the case the claim singles out: the most
\* recent Close() found an established connection and ran to its end (it
\* invoked connection.Close()), so a goroutine that is past its wait was in
\* its reconnect loop when Close() was called.
C1_NoDialAfterClose ==
    [][\A g \in Goroutines :
         (closeCh = "closed" /\ lastClose.connClose /\ pc[g] = "ready")
            => pc'[g] \notin {"chan", "sleep"}]_vars

\* C2: a Ping() that starts after a Close() has returned (it can start only
\* when the mutex is free) returns an error.  Stated for the interleaving of
\* Close() with the supervisor: the most recent Close() ran to its end on an
\* established connection (it invoked connection.Close()), and the
\* connection the client holds now is one a reconnect attempt dialled.
C2_PingAfterCloseFails ==
    ( /\ closeCh = "closed"
      /\ lastClose.connClose
      /\ origin[connection] = "reconnect"
      /\ mu = Free )
    => PingResult = "err"

\* C3: after a Close() has returned, ConnectLocal does not establish a new
\* connection: no ConnectLocal is ever past a successful dial, holding the
\* mutex with a new connection stored, while the shutdown signal is closed.
C3_ConnectAfterCloseRefused ==
    closeCh = "closed" => mu # Caller

\* C4: over any number of Close() calls the shutdown signal is closed exactly
\* once, by the first call (it is closed as soon as one call has run, and
\* close(closeCh) has then been executed once), no call panics, and this
\* holds whatever the close primitives returned.
C4_ShutdownSignalOnce ==
    /\ lastClose.res # "panic"
    /\ closeCalls = 0 => (closeCh = "open" /\ closeChCloses = 0)
    /\ closeCalls >= 1 => (closeCh = "closed" /\ closeChCloses = 1)

\* C4 witness: at least two Close() calls were made, the latest returned an
\* error from a close primitive, and the signal was closed once.
C4_Witness ==
    /\ closeCalls >= 2
    /\ lastClose.res = "err"
    /\ closeChCloses = 1
    /\ closeCh = "closed"

\* C5: a second or later Close() invokes neither channel.Close() nor
\* connection.Close().
C5_NoRedundantClose ==
    closeCalls >= 2 => (~lastClose.chanClose /\ ~lastClose.connClose)

\* C6: Ping() returns nil only in a state where the connection is open and
\* the client's channel is open.  Stated for a client on which Close() has
\* not been called.
C6_PingNilOnlyIfBothOpen ==
    (closeCh = "open" /\ mu = Free /\ PingResult = "nil") =>
        /\ connState[connection] = "open"
        /\ channel # NoHandle
        /\ chanState[channel] = "open"

\* C7: after the broker has closed the client's channel, and until a redial
\* has succeeded (which stores a new channel), Ping() returns an error.
C7_PingFailsAfterChannelClose ==
    (mu = Free /\ channel # NoHandle /\ chanState[channel] = "lost") =>
        PingResult = "err"

\* C8: an abnormal close of the connection or of the channel of a connected,
\* non-closed client is followed by a wait and a redial.  A redial can only
\* follow while some background goroutine is still going to act, so, as a
\* state property: while the client still holds the handle that was lost (no
\* redial has succeeded), some goroutine is Active.  Stated for the close of
\* the channel alone, the connection staying open.
C8_CloseEventLeadsToRedial ==
    \A h \in Handles :
        ( /\ closeCh = "open"
          /\ connection = h
          /\ channel = h
          /\ connState[h] = "open"
          /\ chanState[h] = "lost" )
        => \E g \in Goroutines : Active(g)

C10_ListenerRearmed ==
    \A h \in Handles :
        ( /\ closeCh = "open"
          /\ origin[h] = "reconnect"
          /\ connection = h
          /\ channel = h
          /\ connState[h] = "lost" )
        => \E g \in Goroutines : Active(g)

\* C11: from the loss of an established connection (one whose channel had
\* been opened) until a redial has succeeded (a later connection has had its
\* channel opened), every Ping() returns an error: it can run only when the
\* mutex is free, and then it finds the client's connection closed.
C11_PingErrFromLossToRedial ==
    \A h \in Handles :
        ( /\ mu = Free
          /\ connState[h] = "lost"
          /\ chanState[h] # "unused"
          /\ \A k \in Handles : k > h => chanState[k] = "unused" )
        => PingResult = "err"

\* C11 witness: the established connection 1 was lost, a redial dialled
\* connection 2 and failed to open its channel, and a Ping() may run.
C11_Witness ==
    /\ mu = Free
    /\ connState[1] = "lost"
    /\ chanState[1] = "lost"
    /\ connection = 2
    /\ origin[2] = "reconnect"
    /\ chanState[2] = "unused"
    /\ PingResult = "err"

\* An established monitor goroutine that has not returned.
Alive(g) == pc[g] \in {"start", "listen", "sleep", "ready", "chan"}

\* C12: once Close() has closed the shutdown signal (the most recent Close()
\* ran to its end), a reconnect attempt that completes (the one attempt that
\* was waiting for the mutex when Close() ran) is the last one: the goroutine
\* then leaves its loop, whether the attempt succeeded or failed; it does not
\* go back to the wait.
C12_LoopEndsAfterClose ==
    [][\A g \in Goroutines :
         ( /\ closeCh = "closed"
           /\ lastClose.connClose
           /\ pc[g] \in {"ready", "chan"}
           /\ pc'[g] \notin {"ready", "chan"} )
         => pc'[g] = "done"]_vars

\* C13: at most one operation is inside its critical section: a goroutine in
\* the middle of a reconnect attempt (dial done, channel not yet opened) is
\* the holder of the mutex, so no ConnectLocal is in progress and no second
\* goroutine is in an attempt; and while a ConnectLocal or a reconnect
\* attempt is in progress neither Ping, nor Close, nor another ConnectLocal,
\* nor another attempt can start.
C13_MutualExclusion ==
    /\ \A g \in Goroutines : pc[g] = "chan" => mu = g
    /\ mu # Free =>
          /\ ~ENABLED Ping
          /\ ~ENABLED Close
          /\ \A p \in ParamChoices, err \in Errors : ~ENABLED ConnectLocalDial(p, err)
          /\ \A g \in Goroutines : ~ENABLED ReconnectDial(g)

\* C13 witness: a reconnect attempt is in its critical section after a
\* Close(), its new connection stored and its channel not yet: the fields are
\* in the middle of a reconnect, and no Ping, Close or ConnectLocal can start.
C13_Witness ==
    \E g \in Goroutines :
        /\ pc[g] = "chan"
        /\ mu = g
        /\ connection # channel
        /\ closeCalls >= 1

\* C14: between a successful ConnectLocal and Close() exactly one monitor
\* goroutine is alive: whenever the non-closed client, connected by one
\* ConnectLocal, holds a channel and no operation is in progress, one monitor
\* has been started and has not returned.
C14_OneSupervisor ==
    ( /\ closeCh = "open"
      /\ channel # NoHandle
      /\ mu = Free
      /\ Cardinality({h \in Handles : origin[h] = "connect"}) = 1 ) =>
        Cardinality({h \in Handles : Alive(Mon(h))}) = 1

C16_FailedConnectStartsNothing ==
    startup.rabbit = "failed" =>
        /\ channel = NoHandle
        /\ connection = NoHandle \/ connState[connection] # "open"
        /\ \A g \in Goroutines : pc[g] = "none"
        /\ \A h \in Handles : origin[h] # "reconnect"
        /\ mu = Free

\* C16 witness: the dial succeeded and the channel open failed; ConnectLocal
\* returned the error and closed the connection it had dialled.
C16_Witness ==
    /\ startup.rabbit = "failed"
    /\ connection = 1
    /\ connState[1] = "closed"
    /\ pc[Mon(1)] = "none"

\* The records of the last response whose component is that of dependency d.
RecordsOf(d) ==
    {i \in 1..Len(response.Checks) : response.Checks[i].Component = ComponentName(d)}

\* C17 as stated: the overall status of a response is "Unknown" for no
\* records, "Available" when every record is OK, "Unavailable" when none is,
\* and "PartiallyAvailable" otherwise.
C17_OverallStatusAsStated ==
    response.code = 200 =>
        LET ok == {i \in 1..Len(response.Checks) : response.Checks[i].Status = "OK"} IN
        response.OverallStatus =
            IF Len(response.Checks) = 0 THEN "Unknown"
            ELSE IF Cardinality(ok) = Len(response.Checks) THEN "Available"
            ELSE IF ok = {} THEN "Unavailable"
            ELSE "PartiallyAvailable"

\* C17, amended: the overall status of a response is a function of its
\* records only: "unknown" for no records, "Available" when every record is
\* OK, "Unavailable" when none is, and "Partially Available" otherwise.
C17_OverallStatus ==
    response.code = 200 =>
        LET ok == {i \in 1..Len(response.Checks) : response.Checks[i].Status = "OK"} IN
        response.OverallStatus =
            IF Len(response.Checks) = 0 THEN "unknown"
            ELSE IF Cardinality(ok) = Len(response.Checks) THEN "Available"
            ELSE IF ok = {} THEN "Unavailable"
            ELSE "Partially Available"

\* C17 witness: three records, none of them OK, and the overall status
\* "Unavailable".
C17_Witness ==
    /\ response.code = 200
    /\ Len(response.Checks) = 3
    /\ \A i \in 1..3 : response.Checks[i].Status # "OK"
    /\ response.OverallStatus = "Unavailable"

\* C18: the response has exactly one record for every dependency whose handle
\* was set, whatever its Ping and the Pings before it did, and no record for
\* a dependency whose handle was nil.
C18_OneRecordPerHandle ==
    response.code = 200 =>
        /\ \A d \in DepSet : Cardinality(RecordsOf(d)) = IF probed[d] = "nil" THEN 0 ELSE 1
        /\ Len(response.Checks) = Cardinality({d \in DepSet : probed[d] # "nil"})

\* C18 witness: the first probe timed out, the second handle was nil, and
\* the third dependency was probed and has its record.
C18_Witness ==
    /\ response.code = 200
    /\ probed["RabbitClient"] = "timeout"
    /\ probed["HazelcastClient"] = "nil"
    /\ probed["PgClient"] = "err"
    /\ Len(response.Checks) = 2
    /\ response.Checks[2].Component = "postgresql-sql"

\* C19 as stated: the records are in the order store, cache, broker: a
\* record of the cache never precedes one of the store, and a record of the
\* broker never precedes one of the cache or of the store.
C19_OrderStoreFirst ==
    LET rank(c) == IF c = "postgresql-sql" THEN 1 ELSE IF c = "Hazelcast" THEN 2 ELSE 3 IN
    \A i, j \in 1..Len(response.Checks) :
        i < j => rank(response.Checks[i].Component) < rank(response.Checks[j].Component)

\* C19, amended: the records are in the same fixed order on every call,
\* broker first, then cache, then store, whatever the probes did; a
\* dependency whose handle is nil is skipped without reordering the others.
C19_OrderBrokerFirst ==
    LET rank(c) == IF c = "RabbitMQ" THEN 1 ELSE IF c = "Hazelcast" THEN 2 ELSE 3 IN
    \A i, j \in 1..Len(response.Checks) :
        i < j => rank(response.Checks[i].Component) < rank(response.Checks[j].Component)

\* C19 witness: the cache was absent and the broker's probe failed; the
\* broker's record comes first and the store's second.
C19_Witness ==
    /\ response.code = 200
    /\ probed["RabbitClient"] = "err"
    /\ probed["HazelcastClient"] = "nil"
    /\ probed["PgClient"] = "ok"
    /\ Len(response.Checks) = 2
    /\ response.Checks[1].Component = "RabbitMQ"
    /\ response.Checks[2].Component = "postgresql-sql"

\* C20: the record of a dependency whose Ping returned an error or timed out
\* has the status "Unavailable", and the handler still answered 200 with a
\* report.
C20_FailedProbeUnavailable ==
    response.code = 200 =>
        \A d \in DepSet : probed[d] \in {"err", "timeout"} =>
            \A i \in RecordsOf(d) : response.Checks[i].Status = "Unavailable"

\* C21: when the Ping of a dependency did not return, the call has still
\* ended with a report in which that dependency has one record, with the
\* status "Unavailable", and every other dependency whose handle was set has
\* its record too.
C21_HungProbeAbandoned ==
    \A d \in DepSet :
        (response.code = 200 /\ probed[d] = "timeout") =>
            /\ \A e \in DepSet : probed[e] # "nil" => Cardinality(RecordsOf(e)) = 1
            /\ \E i \in RecordsOf(d) : response.Checks[i].Status = "Unavailable"

\* C22: when the process has ended by the stop of its server, after the
\* RabbitMQ singleton had been started, Close() has been called on the
\* client exactly once.
C22_CloseOnceAtShutdown ==
    (startup.main = "exited" /\ startup.rabbit \in {"connected", "failed"}) =>
        closeCalls = 1

\* C23: the monitor goroutine reads the connection field with the mutex held,
\* so it never reads it while another task is inside a critical section and
\* has stored a connection that its operation has not finished with.
C23_MonitorReadsUnderMutex ==
    [][\A h \in Handles :
          (pc[Mon(h)] = "start" /\ pc'[Mon(h)] # "start") => mu \in {Free, Mon(h)}]_vars

\* C24: if the connection that ConnectLocal or a reconnect attempt has
\* established (its channel was opened) is lost while the client has not been
\* closed, some supervisor goroutine is still going to act on the loss, also
\* when the loss came before the monitor had registered for close events.
C24_EarlyLossDetected ==
    (/\ closeCh = "open"
     /\ mu = Free
     /\ connection # NoHandle
     /\ channel = connection
     /\ connState[connection] = "lost") =>
        \E g \in Goroutines : Active(g)

\* C25: at most one goroutine of the client is inside reconnectLocalLoop.
C25_OneReconnectLoop ==
    Cardinality({g \in Goroutines : pc[g] \in {"sleep", "ready", "chan"}}) <= 1

\* C26: at most one connection dialled by the client is open: a connection
\* is never replaced in the client while it is still open.
C26_OneOpenConnection ==
    Cardinality({h \in Handles : connState[h] = "open"}) <= 1

\* C27: when ConnectLocal has returned an error to the startup code, which
\* called it on a fresh client, the connection, channel and params fields
\* are what they were before the call: the zero values.
C27_FailedConnectChangesNothing ==
    (startup.rabbit = "failed" /\ mu = Free) =>
        /\ connection = NoHandle
        /\ channel = NoHandle
        /\ params = NoParams

\* C28: when the first Close() returns on a client that holds a connection,
\* that connection is no longer open, whatever Close() returned.
C28_CloseClosesConnection ==
    [][(closeCh = "open" /\ closeCh' = "closed" /\ connection # NoHandle) =>
          connState'[connection] # "open"]_vars

\* C29 as stated: a report with records, answered after the constructor of
\* the cache client has returned an error, has a record for Hazelcast whose
\* status is not "OK", and its overall status is not "Available".
C29_FailedCacheReported ==
    [][(startup.cache = "failed" /\ response' # response /\ Len(response'.Checks) > 0) =>
          /\ \E i \in 1..Len(response'.Checks) :
                /\ response'.Checks[i].Component = ComponentName("HazelcastClient")
                /\ response'.Checks[i].Status # "OK"
          /\ response'.OverallStatus # "Available"]_vars

\* C29: once the constructor of the cache client has returned an error, the
\* singleton holds a nil handle, so no handler built over it has a Hazelcast
\* handle, no request probes Hazelcast and no report has a record for it.
C29_FailedCacheSkipped ==
    startup.cache = "failed" =>
        /\ startup.hazelcast = "nil"
        /\ clients["HazelcastClient"] = "nil"
        /\ RecordsOf("HazelcastClient") = {}
        /\ probed["HazelcastClient"] \in {"none", "nil"}

\* A report answered while the cache is down, with every other probed
\* dependency healthy: it says "Available".
C29_Witness ==
    /\ startup.cache = "failed"
    /\ response.code = 200
    /\ response.OverallStatus = "Available"
    /\ probed["HazelcastClient"] = "nil"
    /\ probed["PgClient"] = "ok"

\* C30: when Connect has returned an error during the initialisation of the
\* PostgreSQL singleton, the process has not panicked.
C30_FailedConnectNoPanic ==
    startup.postgres = "failed" => startup.main # "panic"
====
